---- MODULE Spec2Model ----
(***************************************************************************)
(* The quiz session engine of the HSK learning app (src/app.py): the Flask *)
(* handlers quiz_start, quiz_question, quiz_submit, quiz_feedback,         *)
(* quiz_next and quiz_result, acting on the per-user Flask session and     *)
(* reading the vocabulary table; and the flashcards handler with the       *)
(* progress table it writes.                                               *)
(*                                                                         *)
(* A handler is an operator from the request's arguments and the session   *)
(* it finds to the set of outcomes [session, resp] it can produce (one per *)
(* result of the random draws); an action is one request/response cycle.   *)
(***************************************************************************)
EXTENDS Integers, Sequences, FiniteSets, TLC

\* ------------------------------------------------------------------------
\* Bounds of the model
\* ------------------------------------------------------------------------
MaxCursor == 6     \* quiz_next is not explored once the cursor is this large
MaxCorrect == 2    \* quiz_submit is not explored once the count is this large

\* ------------------------------------------------------------------------
\* The vocabulary table (immutable once seeded)
\* ------------------------------------------------------------------------
\* vocabulary[i] is the hsk_level of the row whose id is i (ids are assigned
\* by AUTOINCREMENT: 1, 2, ...).  Level 1 has five rows, level 2 three; any
\* other level has none.
vocabulary == <<1, 2, 1, 1, 2, 1, 2, 1>>

VocabIds == DOMAIN vocabulary

\* The levels requests carry in the URL: the two seeded levels and a level
\* with no rows.
Levels == {1, 2, 3}

\* SELECT ... FROM vocabulary WHERE hsk_level=?  (rows in rowid order)
RECURSIVE RowsFrom(_, _)
RowsFrom(level, i) ==
    IF i > Len(vocabulary) THEN << >>
    ELSE IF vocabulary[i] = level THEN <<i>> \o RowsFrom(level, i + 1)
    ELSE RowsFrom(level, i + 1)

SelectByLevel(level) == RowsFrom(level, 1)

\* SELECT * FROM vocabulary WHERE id=?  .fetchone(): the row, or None
None == 0
SelectById(id) == IF id \in VocabIds THEN id ELSE None

\* ------------------------------------------------------------------------
\* random.sample
\* ------------------------------------------------------------------------
\* The sequences of k distinct positions drawn from the set P of positions.
RECURSIVE Arrangements(_, _)
Arrangements(P, k) ==
    IF k = 0 THEN { << >> }
    ELSE UNION { { <<p>> \o t : t \in Arrangements(P \ {p}, k - 1) } : p \in P }

\* random.sample raises ValueError when k is negative or larger than the
\* population.
SampleRaises(population, k) == k < 0 \/ k > Len(population)

\* A draw that may take a position more than once (random.choices in
\* place of random.sample).
sample_repeating(population, k) ==
    { [i \in 1..k |-> population[a[i]]] : a \in [1..k -> DOMAIN population] }

\* random.sample(population, k): k elements at distinct positions, in the
\* order drawn.
sample(population, k) ==
    { [i \in 1..k |-> population[a[i]]] : a \in Arrangements(DOMAIN population, k) }

Range(s) == { s[i] : i \in DOMAIN s }

\* ------------------------------------------------------------------------
\* The Flask session: a dictionary; a key is present or not
\* ------------------------------------------------------------------------
QuizKeys == {"quiz_words", "quiz_current", "quiz_correct",
             "quiz_feedback", "quiz_total", "quiz_level"}

EmptySession == [k \in {} |-> 0]

Has(s, k) == k \in DOMAIN s

\* session.get(k, default)
Get(s, k, default) == IF Has(s, k) THEN s[k] ELSE default

\* session[k] = v
Put(s, k, v) == [x \in (DOMAIN s) \cup {k} |-> IF x = k THEN v ELSE s[x]]

\* session.pop(k, None)
Pop(s, k) == [x \in (DOMAIN s) \ {k} |-> s[x]]

VARIABLES
    session,    \* the Flask session of the one user
    answered,   \* an answer was stored since the cursor last moved
    nMatch,     \* answers with answer_id = correct_id stored since the last
                \* successful start
    nAdvance,   \* cursor moves stored since the last successful start
    progress,   \* the rows of the progress table, in the order inserted
    page,       \* the last flashcards request and its response
    earlier,    \* the flashcards request before the last, and its response
    marked,     \* the (user, vocabulary id) pairs a logged-in user marked
    inflight    \* the requests being served, where requests overlap

vars ==
    <<session, answered, nMatch, nAdvance, progress, page, earlier, marked,
      inflight>>

\* What the quiz handlers do not touch.
flashVars == <<progress, page, earlier, marked, inflight>>

\* ------------------------------------------------------------------------
\* Outcomes
\* ------------------------------------------------------------------------
Outcome(s, r) == [session |-> s, resp |-> r]

\* An unhandled exception: the request ends in an error response.  Flask
\* stores the session as modified so far when it builds the 500 response;
\* under the debugger (app.run(debug=True)) the exception propagates and
\* nothing is stored.  before = the session the request found, sofar = the
\* session as modified up to the raise.
Raise(exc, before, sofar) ==
    { Outcome(before, [kind |-> "error", exc |-> exc]),
      Outcome(sofar, [kind |-> "error", exc |-> exc]) }

Redirect(to, level) == [kind |-> "redirect", to |-> to, level |-> level]

\* ------------------------------------------------------------------------
\* The question shown for a word: the target and three distractors
\* ------------------------------------------------------------------------
\* The list [v for v in vocab_list if v["id"] != question_id]
Others(vocab_list, question_id) ==
    SelectSeq(vocab_list, LAMBDA v : v # question_id)

\* The number of distractors drawn for a question.
NumDistractors == 3

\* random.shuffle(x): the list in any order of its positions
shuffle(x) ==
    { [i \in DOMAIN x |-> x[a[i]]] : a \in Arrangements(DOMAIN x, Len(x)) }

\* options = random.sample(others, 3); options.append(question);
\* random.shuffle(options)
Options(question, others) ==
    UNION { shuffle(Append(o, question)) : o \in sample(others, NumDistractors) }

\* The option lists the draws can give for each level of the request and
\* each word: the table is a function of the vocabulary alone (the rows are
\* immutable), computed once.
OptionTable ==
    [level \in Levels, question_id \in VocabIds |->
       Options(SelectById(question_id),
               Others(SelectByLevel(level), question_id))]

\* The question page of quiz_question and quiz_next for the word at index
\* current of words.  before/sofar: see Raise.
QuestionPage(level, words, current, before, sofar) ==
    LET question_id == words[current + 1]
        question == SelectById(question_id)
        vocab_list == SelectByLevel(level)
        others == Others(vocab_list, question_id)
    IN  IF SampleRaises(others, NumDistractors)
        THEN Raise("ValueError", before, sofar)
        ELSE { Outcome(sofar, [kind |-> "question", question |-> question,
                               options |-> opts, level |-> level,
                               total |-> Len(words), current |-> current])
               : opts \in OptionTable[level, question_id] }

\* ------------------------------------------------------------------------
\* The handlers
\* ------------------------------------------------------------------------
\* The quiz sizes quiz_start accepts are the multiples of this number.
QuizMultiple == 5

\* POST/GET /hsk/<level>/quiz/start
quiz_start(method, level, num, s) ==
    IF method = "POST"
    THEN IF num % QuizMultiple # 0
         THEN { Outcome(s, [kind |-> "text", text |-> "multiple of 5"]) }
         ELSE LET vocab_list == SelectByLevel(level)
              IN  IF num > Len(vocab_list)
                  THEN { Outcome(s, [kind |-> "text", text |-> "Max allowed",
                                     max |-> Len(vocab_list)]) }
                  ELSE IF SampleRaises(vocab_list, num)
                  THEN Raise("ValueError", s, s)
                  ELSE { Outcome(
                           Put(Put(Put(Put(Put(s,
                               "quiz_words", vocab_ids),
                               "quiz_current", 0),
                               "quiz_correct", 0),
                               "quiz_level", level),
                               "quiz_total", num),
                           Redirect("quiz_question", level))
                         : vocab_ids \in sample(vocab_list, num) }
    ELSE { Outcome(s, [kind |-> "page", page |-> "quiz_start.html",
                       level |-> level]) }

\* quiz_question with the end test current > len(words): the cursor at the
\* length is taken for a question.
quiz_question_end_test_strict(level, s) ==
    LET words == Get(s, "quiz_words", << >>)
        current == Get(s, "quiz_current", 0)
    IN  IF words = << >>
        THEN { Outcome(s, Redirect("quiz", level)) }
        ELSE IF current > Len(words)
        THEN { Outcome(s, Redirect("quiz_result", level)) }
        ELSE IF current = Len(words)
        THEN Raise("IndexError", s, s)
        ELSE QuestionPage(level, words, current, s, s)

\* GET /hsk/<level>/quiz/question
quiz_question(level, s) ==
    LET words == Get(s, "quiz_words", << >>)
        current == Get(s, "quiz_current", 0)
    IN  IF words = << >>
        THEN { Outcome(s, Redirect("quiz", level)) }
        ELSE IF current >= Len(words)
        THEN { Outcome(s, Redirect("quiz_result", level)) }
        ELSE QuestionPage(level, words, current, s, s)

\* quiz_submit with the count raised for every answer, matching or not.
quiz_submit_counting_all(level, answer_id, correct_id, s) ==
    IF ~Has(s, "quiz_correct")
    THEN Raise("KeyError", s, s)
    ELSE LET s1 == Put(s, "quiz_correct", s["quiz_correct"] + 1)
         IN  IF answer_id = correct_id
             THEN { Outcome(Put(s1, "quiz_feedback", <<"Correct!">>),
                            Redirect("quiz_feedback", level)) }
             ELSE IF SelectById(correct_id) = None
             THEN Raise("TypeError", s, s1)
             ELSE { Outcome(Put(s1, "quiz_feedback",
                                <<"Wrong! Correct answer: ",
                                  SelectById(correct_id)>>),
                            Redirect("quiz_feedback", level)) }

\* POST /hsk/<level>/quiz/submit
quiz_submit(level, answer_id, correct_id, s) ==
    IF answer_id = correct_id
    THEN IF ~Has(s, "quiz_correct")
         THEN Raise("KeyError", s, s)
         ELSE { Outcome(Put(Put(s, "quiz_correct", s["quiz_correct"] + 1),
                            "quiz_feedback", <<"Correct!">>),
                        Redirect("quiz_feedback", level)) }
    ELSE LET correct_word == SelectById(correct_id)
         IN  IF correct_word = None
             THEN Raise("TypeError", s, s)
             ELSE { Outcome(Put(s, "quiz_feedback",
                                <<"Wrong! Correct answer: ", correct_word>>),
                            Redirect("quiz_feedback", level)) }

\* GET /hsk/<level>/quiz/feedback
quiz_feedback(level, s) ==
    { Outcome(s, [kind |-> "feedback",
                  feedback |-> Get(s, "quiz_feedback", << >>),
                  level |-> level,
                  total |-> Len(Get(s, "quiz_words", << >>)),
                  current |-> Get(s, "quiz_current", 0)]) }

\* POST /hsk/<level>/quiz/next
quiz_next(level, s) ==
    IF ~Has(s, "quiz_current")
    THEN Raise("KeyError", s, s)
    ELSE LET s1 == Put(s, "quiz_current", s["quiz_current"] + 1)
             current == Get(s1, "quiz_current", 0)
             words == Get(s1, "quiz_words", << >>)
         IN  IF current >= Len(words)
             THEN { Outcome(s1, Redirect("quiz_result", level)) }
             ELSE QuestionPage(level, words, current, s, s1)

\* The session with every quiz key popped.
Cleared(s) ==
    Pop(Pop(Pop(Pop(Pop(Pop(s,
        "quiz_words"), "quiz_current"), "quiz_correct"),
        "quiz_feedback"), "quiz_total"), "quiz_level")

\* quiz_result reading total and correct after the session was cleared.
quiz_result_read_after_clear(level, s) ==
    { Outcome(Cleared(s),
              [kind |-> "result", total |-> Get(Cleared(s), "quiz_total", 0),
               correct |-> Get(Cleared(s), "quiz_correct", 0),
               level |-> level]) }

\* quiz_result without the pop of quiz_feedback.
quiz_result_keeping_feedback(level, s) ==
    { Outcome(Pop(Pop(Pop(Pop(Pop(s,
                  "quiz_words"), "quiz_current"), "quiz_correct"),
                  "quiz_total"), "quiz_level"),
              [kind |-> "result", total |-> Get(s, "quiz_total", 0),
               correct |-> Get(s, "quiz_correct", 0), level |-> level]) }

\* GET /hsk/<level>/quiz/result
quiz_result(level, s) ==
    LET total == Get(s, "quiz_total", 0)
        correct == Get(s, "quiz_correct", 0)
    IN  { Outcome(
            Pop(Pop(Pop(Pop(Pop(Pop(s,
                "quiz_words"), "quiz_current"), "quiz_correct"),
                "quiz_feedback"), "quiz_total"), "quiz_level"),
            [kind |-> "result", total |-> total, correct |-> correct,
             level |-> level]) }

\* ------------------------------------------------------------------------
\* Requests
\* ------------------------------------------------------------------------
\* The question counts a client posts to quiz_start: a negative multiple of
\* 5, zero, a count within every pool that is no multiple of 5, the valid
\* count, and a non-multiple above it.
Nums == {-5, 0, 3, 5, 7}

\* The ids a client posts to quiz_submit: a vocabulary id and an id of no
\* row.
SubmitIds == {1, 0}

\* No request is being served.
Idle == [slot \in {} |-> 0]

\* No flashcards request was made.
NoPage == [kind |-> "none"]

Init ==
    /\ session = EmptySession
    /\ answered = FALSE
    /\ nMatch = 0
    /\ nAdvance = 0
    /\ progress = << >>
    /\ page = NoPage
    /\ earlier = NoPage
    /\ marked = {}
    /\ inflight = Idle

Methods == {"GET", "POST"}

\* What an outcome leaves behind: the session stored and the kind of the
\* response.
Effects(outcomes) ==
    { [session |-> o.session, kind |-> o.resp.kind] : o \in outcomes }

\* One request/response cycle: the handler finds the stored session and the
\* session of its outcome is stored.
QuizStart ==
    /\ UNCHANGED flashVars
    /\ \E method \in Methods, level \in Levels, num \in Nums :
         \E o \in Effects(quiz_start(method, level, num, session)) :
           /\ method = "GET" => num = 0      \* a GET carries no form
           /\ session' = o.session
           /\ IF o.kind = "redirect"
              THEN answered' = FALSE /\ nMatch' = 0 /\ nAdvance' = 0
              ELSE UNCHANGED <<answered, nMatch, nAdvance>>

QuizQuestion ==
    /\ UNCHANGED flashVars
    /\ \E level \in Levels :
         \E o \in Effects(quiz_question(level, session)) :
           /\ session' = o.session
           /\ UNCHANGED <<answered, nMatch, nAdvance>>

QuizSubmit ==
    /\ Get(session, "quiz_correct", 0) < MaxCorrect
    /\ \E level \in Levels, answer_id \in SubmitIds, correct_id \in SubmitIds :
         \E o \in Effects(quiz_submit(level, answer_id, correct_id, session)) :
           /\ session' = o.session
           /\ IF o.kind = "redirect"
              THEN /\ answered' = TRUE
                   /\ nMatch' = nMatch + (IF answer_id = correct_id THEN 1 ELSE 0)
              ELSE UNCHANGED <<answered, nMatch>>
           /\ UNCHANGED nAdvance
    /\ UNCHANGED flashVars

QuizFeedback ==
    /\ UNCHANGED flashVars
    /\ \E level \in Levels :
         \E o \in Effects(quiz_feedback(level, session)) :
           /\ session' = o.session
           /\ UNCHANGED <<answered, nMatch, nAdvance>>

QuizNext ==
    /\ Get(session, "quiz_current", 0) < MaxCursor
    /\ \E level \in Levels :
         \E o \in Effects(quiz_next(level, session)) :
           /\ session' = o.session
           /\ IF o.session # session
              THEN answered' = FALSE /\ nAdvance' = nAdvance + 1
              ELSE UNCHANGED <<answered, nAdvance>>
           /\ UNCHANGED nMatch
    /\ UNCHANGED flashVars

QuizResult ==
    /\ UNCHANGED flashVars
    /\ \E level \in Levels :
         \E o \in Effects(quiz_result(level, session)) :
           /\ session' = o.session
           /\ UNCHANGED <<answered, nMatch, nAdvance>>

Next ==
    \/ QuizStart
    \/ QuizQuestion
    \/ QuizSubmit
    \/ QuizFeedback
    \/ QuizNext
    \/ QuizResult

Spec == Init /\ [][Next]_vars

\* ------------------------------------------------------------------------
\* The session as the quiz engine's state machine
\* ------------------------------------------------------------------------
Words(s) == Get(s, "quiz_words", << >>)
Cursor(s) == Get(s, "quiz_current", 0)
Correct(s) == Get(s, "quiz_correct", 0)

\* A quiz session exists: the test quiz_question makes (a missing or empty
\* word list sends the client back to the start page).
Started(s) == Words(s) # << >>

Completed == Started(session) /\ Cursor(session) >= Len(Words(session))
InProgress ==
    Started(session) /\ Cursor(session) < Len(Words(session)) /\ ~answered
AwaitingNext ==
    Started(session) /\ Cursor(session) < Len(Words(session)) /\ answered

\* A session of no question: what quiz_start stores for the count 0.
EmptyQuiz(s) == Has(s, "quiz_words") /\ s["quiz_words"] = << >>

\* A count Start is to accept for a level: a positive multiple of 5 within
\* the level's pool.
ValidCount(level, num) ==
    /\ num > 0
    /\ num % QuizMultiple = 0
    /\ num <= Len(SelectByLevel(level))

NoDuplicates(seq) ==
    \A i, j \in DOMAIN seq : i # j => seq[i] # seq[j]

\* The ids of the rows of each level.
IdsOfLevel == [level \in Levels |-> { i \in VocabIds : vocabulary[i] = level }]

\* s is a freshly started session of num words of the level: num ids, no
\* two the same, all of the level.
FreshSession(s, level, num) ==
    /\ QuizKeys \ {"quiz_feedback"} \subseteq DOMAIN s
    /\ LET words == s["quiz_words"]
       IN  /\ Len(words) = num
           /\ Cardinality(Range(words)) = num
           /\ Range(words) \subseteq IdsOfLevel[level]
    /\ s["quiz_current"] = 0
    /\ s["quiz_correct"] = 0
    /\ s["quiz_total"] = num
    /\ s["quiz_level"] = level

\* Key k is present in both sessions with one value, or in neither.
SameKey(s1, s2, k) ==
    /\ Has(s1, k) <=> Has(s2, k)
    /\ Has(s1, k) => s1[k] = s2[k]

\* ------------------------------------------------------------------------
\* C1
\* ------------------------------------------------------------------------
\* C1: a Start whose count is not a positive multiple of 5 within the
\* level's pool is answered with the invalid-size message and leaves the
\* session as it was.
C1_InvalidStartRejected ==
    \A level \in Levels, num \in Nums :
      ~ValidCount(level, num) =>
        \A o \in quiz_start("POST", level, num, session) :
          /\ o.resp.kind = "text"
          /\ o.session = session

\* ------------------------------------------------------------------------
\* C2
\* ------------------------------------------------------------------------
\* C2: from every reachable session, a Start with a valid count succeeds
\* and stores exactly that many distinct words of the requested level with
\* cursor 0, correct 0 and total = the count; and every stored word list
\* has quiz_total distinct words of quiz_level.
C2_ValidStartStoresFreshSession ==
    /\ \A level \in Levels, num \in Nums :
         ValidCount(level, num) =>
           LET outcomes == quiz_start("POST", level, num, session)
           IN  /\ outcomes # {}
               /\ \A o \in outcomes :
                    /\ o.resp = Redirect("quiz_question", level)
                    /\ FreshSession(o.session, level, num)
    /\ Has(session, "quiz_words") =>
         /\ Len(session["quiz_words"]) = session["quiz_total"]
         /\ NoDuplicates(session["quiz_words"])
         /\ \A i \in DOMAIN session["quiz_words"] :
              vocabulary[session["quiz_words"][i]] = session["quiz_level"]
         /\ nAdvance = 0 /\ nMatch = 0 =>
              session["quiz_current"] = 0 /\ session["quiz_correct"] = 0

\* A session of five words just started over an earlier session (whose
\* feedback is still stored).
C2_Witness ==
    /\ Started(session)
    /\ FreshSession(session, 1, 5)
    /\ Has(session, "quiz_feedback")
    /\ nAdvance = 0
    /\ nMatch = 0
    /\ ~answered

\* ------------------------------------------------------------------------
\* C3
\* ------------------------------------------------------------------------
\* C3: an existing quiz session has 0 <= cursor <= length of the word
\* sequence.
C3_CursorWithinSequence ==
    Started(session) =>
      /\ 0 <= Cursor(session)
      /\ Cursor(session) <= Len(Words(session))

C5_QuestionOptions ==
    \A level \in Levels :
      \A o \in quiz_question(level, session) \cup quiz_next(level, session) :
        o.resp.kind = "question" =>
          LET opts == o.resp.options
              target == Words(o.session)[o.resp.current + 1]
          IN  /\ Len(opts) = NumDistractors + 1
              /\ NoDuplicates(opts)
              /\ \A i \in DOMAIN opts :
                   /\ opts[i] \in VocabIds
                   /\ vocabulary[opts[i]] = session["quiz_level"]
              /\ o.resp.question = target
              /\ Cardinality({ i \in DOMAIN opts : opts[i] = target }) = 1

\* ------------------------------------------------------------------------
\* C6
\* ------------------------------------------------------------------------
\* C6: whatever SubmitAnswer finds, it leaves the word sequence and the
\* cursor as they were and does not lower the correct count; on a session
\* that has a correct count it raises it by exactly 1 when answer_id =
\* correct_id and leaves it as it was otherwise.
C6_SubmitCountsMatch ==
    \A level \in Levels, answer_id \in SubmitIds, correct_id \in SubmitIds :
      \A o \in quiz_submit(level, answer_id, correct_id, session) :
        /\ SameKey(o.session, session, "quiz_words")
        /\ SameKey(o.session, session, "quiz_current")
        /\ Correct(o.session) >= Correct(session)
        /\ Has(session, "quiz_correct") =>
             /\ Has(o.session, "quiz_correct")
             /\ o.session["quiz_correct"] =
                  session["quiz_correct"]
                    + (IF answer_id = correct_id THEN 1 ELSE 0)

\* One matching answer was counted and a later wrong answer was not.
C6_Witness ==
    /\ Started(session)
    /\ answered
    /\ Correct(session) = 1
    /\ nMatch = 1
    /\ Has(session, "quiz_feedback")
    /\ session["quiz_feedback"][1] = "Wrong! Correct answer: "

\* ------------------------------------------------------------------------
\* C7
\* ------------------------------------------------------------------------
\* C7: in a session of total questions, the cursor is the number of
\* advances and the correct count the number of matching answers stored
\* since the start; the session is completed (CurrentQuestion and Advance
\* send the client to the result) exactly from the total-th advance on, and
\* Result reports (total, number of matching answers).
C7_FullRunCompletesAndReports ==
    Started(session) =>
      /\ session["quiz_total"] = Len(session["quiz_words"])
      /\ session["quiz_current"] = nAdvance
      /\ session["quiz_correct"] = nMatch
      /\ Completed <=> nAdvance >= session["quiz_total"]
      /\ \A level \in Levels :
           /\ \A o \in quiz_question(level, session) :
                o.resp = Redirect("quiz_result", level)
                  <=> nAdvance >= session["quiz_total"]
           /\ \A o \in quiz_next(level, session) :
                o.resp = Redirect("quiz_result", level)
                  <=> nAdvance + 1 >= session["quiz_total"]
           /\ \A o \in quiz_result(level, session) :
                /\ o.resp.kind = "result"
                /\ o.resp.total = session["quiz_total"]
                /\ o.resp.correct = nMatch

\* Five advances from the start of a session of five, two answers matched.
C7_Witness ==
    /\ Started(session)
    /\ session["quiz_total"] = 5
    /\ nAdvance = 5
    /\ nMatch = 2
    /\ Completed

\* ------------------------------------------------------------------------
\* C8
\* ------------------------------------------------------------------------
\* C8: Result leaves no quiz field in the session; on the session it leaves,
\* CurrentQuestion answers with the not-started redirect; and on every
\* stored session with no quiz field (the sessions Result leaves) a Start
\* with a valid count succeeds with cursor 0 and correct 0.
C8_ResultReleasesSession ==
    \A left \in { o.session : o \in UNION { quiz_result(level, session)
                                             : level \in Levels } } :
      /\ (DOMAIN left) \cap QuizKeys = {}
      /\ ~Started(left)
      /\ \A level \in Levels :
           quiz_question(level, left)
             = { Outcome(left, Redirect("quiz", level)) }
      /\ (DOMAIN session) \cap QuizKeys = {} =>
           \A level \in Levels, num \in Nums :
             ValidCount(level, num) =>
               LET outcomes == quiz_start("POST", level, num, session)
               IN  /\ outcomes # {}
                   /\ \A o \in outcomes :
                        /\ o.resp = Redirect("quiz_question", level)
                        /\ FreshSession(o.session, level, num)

\* The session Result left after a completed quiz of five with a matching
\* answer: nothing is stored.
C8_Witness ==
    /\ DOMAIN session = {}
    /\ nAdvance = 5
    /\ nMatch = 1

\* ------------------------------------------------------------------------
\* C9
\* ------------------------------------------------------------------------
\* C9: the correct count rises only by a SubmitAnswer taken in IN_PROGRESS
\* (a session exists, the cursor is inside the sequence and no answer was
\* submitted for the question at the cursor).  Stated for the sessions that
\* are not sessions of no question.
C9_SubmitOnlyInProgress ==
    [][(~EmptyQuiz(session) /\ Correct(session') > Correct(session))
       => InProgress]_vars

\* ------------------------------------------------------------------------
\* C10
\* ------------------------------------------------------------------------
\* C10: the cursor moves from i to i+1 only in AWAITING_NEXT (a session
\* exists, the cursor is inside the sequence and an answer was submitted for
\* the question at the cursor).  Stated for the sessions that are not
\* sessions of no question.
C10_AdvanceOnlyAwaitingNext ==
    [][(/\ ~EmptyQuiz(session)
        /\ Has(session, "quiz_current")
        /\ Has(session', "quiz_current")
        /\ session'["quiz_current"] = session["quiz_current"] + 1)
       => AwaitingNext]_vars

\* ------------------------------------------------------------------------
\* C11
\* ------------------------------------------------------------------------
\* C11: while a session is IN_PROGRESS or AWAITING_NEXT (started, the cursor
\* inside the sequence) no request releases or alters it through Result: a
\* step from such a state leaves the question sequence stored.
C11_ResultOnlyWhenCompleted ==
    [][(Started(session) /\ Cursor(session) < Len(Words(session)))
       => Has(session', "quiz_words")]_vars

\* ------------------------------------------------------------------------
\* C17
\* ------------------------------------------------------------------------
\* C17: every message by which Start refuses a count states the maximum
\* count allowed for the level, the size of the level's pool.
C17_InvalidSizeReportsMax ==
    \A level \in Levels, num \in Nums :
      \A o \in quiz_start("POST", level, num, session) :
        o.resp.kind = "text" =>
          /\ "max" \in DOMAIN o.resp
          /\ o.resp.max = Cardinality(IdsOfLevel[level])

\* ------------------------------------------------------------------------
\* C19
\* ------------------------------------------------------------------------
\* C19: on a started session whose cursor reached the end, CurrentQuestion
\* gives neither an error nor a question: it leaves the session as it is
\* and sends the client to the result, and the result then reports the
\* session's total and the correct count it accumulated.
C19_QuestionAtEndIsCompletion ==
    Completed =>
      \A level \in Levels :
        LET outcomes == quiz_question(level, session)
        IN  /\ outcomes # {}
            /\ \A o \in outcomes :
                 /\ o.session = session
                 /\ o.resp = Redirect("quiz_result", level)
                 /\ \A r \in quiz_result(o.resp.level, o.session) :
                      /\ r.resp.kind = "result"
                      /\ r.resp.total = Len(Words(session))
                      /\ r.resp.correct = Correct(session)
                      /\ r.resp.correct = nMatch

\* The cursor reached the end of a session of five with one matching answer.
C19_Witness ==
    /\ Started(session)
    /\ Cursor(session) = Len(Words(session))
    /\ Len(Words(session)) = 5
    /\ Correct(session) = 1

\* ------------------------------------------------------------------------
\* C20
\* ------------------------------------------------------------------------
\* The level of the request has fewer than three words other than the
\* target to draw distractors from.
FewOthers(level, question_id) ==
    Len(Others(SelectByLevel(level), question_id)) < NumDistractors

\* C20: when the level distractors are drawn from has fewer than three words
\* other than the target, CurrentQuestion and the question step of Advance
\* end in a handled outcome (no unhandled exception, no question) and leave
\* the session as it was; and no question has fewer than four options.
C20_InsufficientDistractorsRecoverable ==
    (Started(session) /\ Has(session, "quiz_current")) =>
      \A level \in Levels :
        LET words == Words(session)
            current == Cursor(session)
        IN  /\ (current < Len(words) /\ FewOthers(level, words[current + 1])) =>
                 \A o \in quiz_question(level, session) :
                   /\ o.resp.kind \notin {"error", "question"}
                   /\ o.session = session
            /\ (current + 1 < Len(words)
                  /\ FewOthers(level, words[current + 2])) =>
                 \A o \in quiz_next(level, session) :
                   /\ o.resp.kind \notin {"error", "question"}
                   /\ o.session = session
            /\ \A o \in quiz_question(level, session)
                         \cup quiz_next(level, session) :
                 o.resp.kind = "question" => Len(o.resp.options) >= 4

\* ========================================================================
\* Users, login and logout
\* ========================================================================
\* The rows of the users table (email, password), in the order signed up;
\* the id of a row is its position.
users ==
    << [email |-> "a", password |-> "pa"], [email |-> "b", password |-> "pb"] >>

UserIds == DOMAIN users

\* request.form.get / request.args.get of a field the request does not
\* carry (an empty field is as false as a missing one).
Absent == -1

\* login: the first user row of the email and password, if any, is stored
\* in the session with the permanence chosen.
login(method, email, password, remember, s) ==
    IF method = "POST"
    THEN LET found == SelectSeq([i \in DOMAIN users |-> i],
                                LAMBDA i : /\ users[i].email = email
                                           /\ users[i].password = password)
         IN  IF found # << >>
             THEN { Outcome(Put(Put(s, "_permanent", remember = "yes"),
                                "user_id", found[1]),
                            [kind |-> "redirect", to |-> "home"]) }
             ELSE { Outcome(s, [kind |-> "page", page |-> "login.html",
                                error |-> TRUE]) }
    ELSE { Outcome(s, [kind |-> "page", page |-> "login.html",
                       error |-> FALSE]) }

\* logout: session.clear()
logout(s) == { Outcome(EmptySession, [kind |-> "redirect", to |-> "welcome"]) }

\* ========================================================================
\* Flashcards
\* ========================================================================
\* rows[:i] + rows[i+1:] for the position i of rows
Without(rows, i) ==
    [j \in 1..(Len(rows) - 1) |-> IF j < i THEN rows[j] ELSE rows[j + 1]]

\* ORDER BY id ASC
RECURSIVE OrderByIdAsc(_)
OrderByIdAsc(rows) ==
    IF rows = << >> THEN << >>
    ELSE LET i == CHOOSE i \in DOMAIN rows :
                    \A j \in DOMAIN rows : rows[i] <= rows[j]
         IN  <<rows[i]>> \o OrderByIdAsc(Without(rows, i))

\* ORDER BY id DESC
RECURSIVE OrderByIdDesc(_)
OrderByIdDesc(rows) ==
    IF rows = << >> THEN << >>
    ELSE LET i == CHOOSE i \in DOMAIN rows :
                    \A j \in DOMAIN rows : rows[i] >= rows[j]
         IN  <<rows[i]>> \o OrderByIdDesc(Without(rows, i))

\* cursor.fetchone(): the first row, or None
fetchone(rows) == IF rows = << >> THEN None ELSE rows[1]

\* The rows after the anchor with the test id >= ?
SelectAfter_inclusive(level, anchor) ==
    OrderByIdAsc(SelectSeq(SelectByLevel(level), LAMBDA v : v >= anchor))

\* SELECT ... WHERE hsk_level=? AND id > ? ORDER BY id ASC
SelectAfter(level, anchor) ==
    OrderByIdAsc(SelectSeq(SelectByLevel(level), LAMBDA v : v > anchor))

\* The rows before the anchor in the order ORDER BY id ASC
SelectBefore_ascending(level, anchor) ==
    OrderByIdAsc(SelectSeq(SelectByLevel(level), LAMBDA v : v < anchor))

\* SELECT ... WHERE hsk_level=? AND id < ? ORDER BY id DESC
SelectBefore(level, anchor) ==
    OrderByIdDesc(SelectSeq(SelectByLevel(level), LAMBDA v : v < anchor))

\* SELECT id FROM progress WHERE user_id=? AND vocab_id=?  .fetchone()
ProgressExists(table, user_id, vocab_id) ==
    \E i \in DOMAIN table :
      table[i].user_id = user_id /\ table[i].vocab_id = vocab_id

\* INSERT INTO progress (user_id, vocab_id, learned) VALUES (?, ?, 1); commit
InsertProgress(table, user_id, vocab_id) ==
    Append(table, [user_id |-> user_id, vocab_id |-> vocab_id, learned |-> 1])

\* The outcome of a flashcards request: the session, the progress table and
\* the response.
FlashOutcome(s, table, r) == [session |-> s, progress |-> table, resp |-> r]

\* redirect(url_for('flashcards', level=level, next=vocab_id))
RedirectNext(level, vocab_id) ==
    [kind |-> "redirect", to |-> "flashcards", level |-> level,
     next |-> vocab_id]

\* The card page with the neighbours taken from the ends of the level: the
\* previous id the first row below the card, the next id the last row above
\* it.
FlashcardPage_neighbours_from_ends(level, next_anchor, prev_anchor) ==
    LET vocab == IF next_anchor # Absent
                 THEN fetchone(SelectAfter(level, next_anchor))
                 ELSE IF prev_anchor # Absent
                 THEN fetchone(SelectBefore(level, prev_anchor))
                 ELSE fetchone(OrderByIdAsc(SelectByLevel(level)))
        prev_row == fetchone(OrderByIdAsc(SelectBefore(level, vocab)))
        next_row == fetchone(OrderByIdDesc(SelectAfter(level, vocab)))
    IN  [kind |-> "page", page |-> "flashcards.html", vocab |-> vocab,
         level |-> level,
         prev_id |-> IF vocab # None THEN prev_row ELSE None,
         next_id |-> IF vocab # None THEN next_row ELSE None]

\* The card shown for the navigation arguments, with the ids of its
\* neighbours in the level.
FlashcardPage(level, next_anchor, prev_anchor) ==
    LET vocab == IF next_anchor # Absent
                 THEN fetchone(SelectAfter(level, next_anchor))
                 ELSE IF prev_anchor # Absent
                 THEN fetchone(SelectBefore(level, prev_anchor))
                 ELSE fetchone(OrderByIdAsc(SelectByLevel(level)))
        prev_row == fetchone(SelectBefore(level, vocab))
        next_row == fetchone(SelectAfter(level, vocab))
    IN  [kind |-> "page", page |-> "flashcards.html", vocab |-> vocab,
         level |-> level,
         prev_id |-> IF vocab # None THEN prev_row ELSE None,
         next_id |-> IF vocab # None THEN next_row ELSE None]

\* The cursors of the requests: every id of the vocabulary, one below and
\* one above.
Cursors == 0..(Len(vocabulary) + 1)

\* The (next, prev) arguments of the navigation requests: none, one of the
\* two, or both.
NavArgs ==
    {<<Absent, Absent>>} \cup { <<c, Absent>> : c \in Cursors }
      \cup { <<Absent, c>> : c \in Cursors } \cup { <<2, 7>> }

\* The card pages of the levels and navigation arguments: the table is a
\* function of the vocabulary alone (the rows are immutable), computed once.
CardTable ==
    [level \in Levels, args \in NavArgs |->
       FlashcardPage(level, args[1], args[2])]

\* flashcards with the record inserted whether or not a user is logged in.
flashcards_writing_without_user(method, level, learned, next_anchor, prev_anchor, s, table) ==
    LET user_id == Get(s, "user_id", None)
    IN  IF method = "POST" /\ learned # Absent
        THEN { FlashOutcome(s,
                 IF ProgressExists(table, user_id, learned) THEN table
                 ELSE InsertProgress(table, user_id, learned),
                 RedirectNext(level, learned)) }
        ELSE { FlashOutcome(s, table,
                            CardTable[level, <<next_anchor, prev_anchor>>]) }

\* flashcards with the existence test left out.
flashcards_always_inserting(method, level, learned, next_anchor, prev_anchor, s, table) ==
    LET user_id == Get(s, "user_id", None)
    IN  IF method = "POST" /\ user_id # None /\ learned # Absent
        THEN { FlashOutcome(s, InsertProgress(table, user_id, learned),
                            RedirectNext(level, learned)) }
        ELSE { FlashOutcome(s, table,
                            CardTable[level, <<next_anchor, prev_anchor>>]) }

flashcards(method, level, learned, next_anchor, prev_anchor, s, table) ==
    LET user_id == Get(s, "user_id", None)
    IN  IF method = "POST" /\ user_id # None /\ learned # Absent
        THEN { FlashOutcome(s,
                 IF ProgressExists(table, user_id, learned) THEN table
                 ELSE InsertProgress(table, user_id, learned),
                 RedirectNext(level, learned)) }
        ELSE { FlashOutcome(s, table,
                            CardTable[level, <<next_anchor, prev_anchor>>]) }

\* ------------------------------------------------------------------------
\* The flashcards requests
\* ------------------------------------------------------------------------
\* The vocabulary ids of the mark-learned forms.
MarkIds == {2, 7}

\* The login forms: the two users, and a wrong password.
Credentials == { <<"a", "pa">>, <<"b", "pb">>, <<"a", "pb">> }

\* A request and its response, as kept in page.
Exchange(method, level, learned, next_anchor, prev_anchor, resp) ==
    [kind |-> "request", method |-> method, level |-> level,
     learned |-> learned, next |-> next_anchor, prev |-> prev_anchor,
     resp |-> resp]

\* One flashcards request/response cycle.
Flashcards(method, level, learned, next_anchor, prev_anchor) ==
    \E o \in flashcards(method, level, learned, next_anchor, prev_anchor,
                        session, progress) :
      /\ session' = o.session
      /\ progress' = o.progress
      /\ page' = Exchange(method, level, learned, next_anchor, prev_anchor,
                          o.resp)
      /\ earlier' = page
      /\ marked' = IF method = "POST" /\ Has(session, "user_id")
                      /\ learned # Absent
                   THEN marked \cup {<<session["user_id"], learned>>}
                   ELSE marked
      /\ UNCHANGED <<answered, nMatch, nAdvance, inflight>>

FlashcardsGet ==
    \E level \in Levels, args \in NavArgs :
      Flashcards("GET", level, Absent, args[1], args[2])

FlashcardsPost ==
    \E level \in Levels, learned \in MarkIds \cup {Absent} :
      Flashcards("POST", level, learned, Absent, Absent)

Login ==
    \E cred \in Credentials, remember \in {"yes", "no"} :
      \E o \in login("POST", cred[1], cred[2], remember, session) :
        /\ session' = o.session
        /\ UNCHANGED <<answered, nMatch, nAdvance, flashVars>>

Logout ==
    \E o \in logout(session) :
      /\ session' = o.session
      /\ UNCHANGED <<answered, nMatch, nAdvance, flashVars>>

\* Browsing the cards of the levels.
NextNav == FlashcardsGet

SpecNav == Init /\ [][NextNav]_vars

\* Marking cards learned, one request after another.
NextMark == FlashcardsPost \/ Login \/ Logout

SpecMark == Init /\ [][NextMark]_vars

\* ------------------------------------------------------------------------
\* Navigation steps, as kept in page and earlier
\* ------------------------------------------------------------------------
\* p is a request answered with a card page.
IsCardPage(p) == p.kind = "request" /\ p.resp.kind = "page"

\* p is a navigation by a next cursor.
IsNextStep(p) == IsCardPage(p) /\ p.next # Absent

\* p is a navigation by a prev cursor.
IsPrevStep(p) == IsCardPage(p) /\ p.next = Absent /\ p.prev # Absent

\* The ids of the level below or at x, and above x.
UpTo(level, x) == { i \in IdsOfLevel[level] : i <= x }
Above(level, x) == { i \in IdsOfLevel[level] : i > x }
Below(level, x) == { i \in IdsOfLevel[level] : i < x }

\* ------------------------------------------------------------------------
\* C12
\* ------------------------------------------------------------------------
\* C12: the card of every navigation is an item of the requested level:
\* with a next cursor c the one of smallest id above c, with a prev cursor c
\* the one of largest id below c, with no cursor the one of smallest id of
\* the level; and no card when the level has no such item.
C12_NavigationByCursor ==
    IsCardPage(page) =>
      LET v == page.resp.vocab
          candidates == IF page.next # Absent THEN Above(page.level, page.next)
                        ELSE IF page.prev # Absent
                        THEN Below(page.level, page.prev)
                        ELSE IdsOfLevel[page.level]
      IN  IF candidates = {} THEN v = None
          ELSE /\ v \in candidates
               /\ IsPrevStep(page) => \A i \in candidates : i <= v
               /\ ~IsPrevStep(page) => \A i \in candidates : v <= i

\* The card after the cursor 4 in level 1 is 6, and level 2's 5 is not
\* returned.
C12_Witness ==
    /\ IsNextStep(page)
    /\ page.level = 1
    /\ page.next = 4
    /\ page.resp.vocab = 6

\* ------------------------------------------------------------------------
\* C13
\* ------------------------------------------------------------------------
\* The last two requests are a navigation next from a cursor, which gave a
\* card, and a navigation prev from that card's id in the same level.
RoundTrip ==
    /\ IsNextStep(earlier)
    /\ earlier.resp.vocab # None
    /\ IsPrevStep(page)
    /\ page.level = earlier.level
    /\ page.prev = earlier.resp.vocab

\* A navigation next from a cursor with no item of the level above it gives
\* no card.
NextAtEndIsEmpty ==
    (IsNextStep(page) /\ Above(page.level, page.next) = {})
      => page.resp.vocab = None

\* C13: next from X then prev from the id returned gives an item of id at
\* most X, X itself when X is an item of the level; and a next at the end
\* of the level gives no card.
C13_RoundTripReturnsItem ==
    /\ RoundTrip =>
         /\ page.resp.vocab # None
         /\ page.resp.vocab <= earlier.next
         /\ earlier.next \in IdsOfLevel[page.level]
              => page.resp.vocab = earlier.next
    /\ NextAtEndIsEmpty

\* C13 (amended): next from X then prev from the id returned gives the item
\* of largest id at most X of the level, which is X when X is an item of the
\* level, and no card when the level has no item of id at most X (X is below
\* the first item); and a next at the end of the level gives no card.
C13_RoundTripAmended ==
    /\ RoundTrip =>
         LET X == earlier.next
             v == page.resp.vocab
         IN  /\ UpTo(page.level, X) = {} => v = None
             /\ UpTo(page.level, X) # {} =>
                  /\ v \in UpTo(page.level, X)
                  /\ \A i \in UpTo(page.level, X) : i <= v
             /\ X \in IdsOfLevel[page.level] => v = X
    /\ NextAtEndIsEmpty

\* Next from 3 in level 2 gave 5, and prev from 5 gave 2, the largest id of
\* the level at most 3.
C13_Witness ==
    /\ RoundTrip
    /\ page.level = 2
    /\ earlier.next = 3
    /\ earlier.resp.vocab = 5
    /\ page.resp.vocab = 2

\* ------------------------------------------------------------------------
\* C14
\* ------------------------------------------------------------------------
\* The (user, vocabulary id) pairs of the rows of the progress table.
Pairs(table) == { <<table[i].user_id, table[i].vocab_id>> : i \in DOMAIN table }

\* C14: with the mark-learned requests of logged-in users served one after
\* another, the progress table has at most one row for a pair and exactly
\* one for each pair marked; a request for a pair that has a row answers
\* as any other (a redirect, no error) and leaves the table as it is; and
\* every request leaves the rows there were in place, unchanged.
C14_MarkLearnedIdempotent ==
    /\ \A i, j \in DOMAIN progress :
         (/\ progress[i].user_id = progress[j].user_id
          /\ progress[i].vocab_id = progress[j].vocab_id) => i = j
    /\ Pairs(progress) = marked
    /\ \A level \in Levels, learned \in MarkIds \cup {Absent} :
         \A o \in flashcards("POST", level, learned, Absent, Absent,
                             session, progress) :
           /\ Len(o.progress) >= Len(progress)
           /\ SubSeq(o.progress, 1, Len(progress)) = progress
           /\ (/\ Has(session, "user_id")
               /\ <<session["user_id"], learned>> \in marked) =>
                /\ o.progress = progress
                /\ o.resp = RedirectNext(level, learned)

\* A logged-in user marked the word 7 twice in a row: one row.
C14_Witness ==
    /\ Has(session, "user_id")
    /\ earlier.kind = "request" /\ earlier.resp.kind = "redirect"
    /\ earlier.learned = 7
    /\ page.kind = "request" /\ page.resp.kind = "redirect"
    /\ page.learned = 7
    /\ marked = {<<session["user_id"], 7>>}
    /\ Len(progress) = 1

\* ------------------------------------------------------------------------
\* C15
\* ------------------------------------------------------------------------
\* C15: a mark-learned request with no user logged in writes no row,
\* changes neither the table nor the session, does not fail, and answers
\* with the card page a navigation with the same arguments gives.
C15_AnonymousMarkIsNoOp ==
    ~Has(session, "user_id") =>
      \A level \in Levels, learned \in MarkIds, args \in NavArgs :
        LET outcomes == flashcards("POST", level, learned, args[1], args[2],
                                   session, progress)
        IN  /\ outcomes # {}
            /\ \A o \in outcomes :
                 /\ o.progress = progress
                 /\ o.session = session
                 /\ o.resp.kind = "page"
                 /\ \A g \in flashcards("GET", level, Absent, args[1],
                                        args[2], session, progress) :
                      o.resp = g.resp

\* After a logged-in user marked a word and logged out, a request to mark
\* the word 7 was answered with the first card of level 2; the table has
\* the one row it had.
C15_Witness ==
    /\ ~Has(session, "user_id")
    /\ earlier.kind = "request" /\ earlier.resp.kind = "redirect"
    /\ page.kind = "request" /\ page.method = "POST" /\ page.learned = 7
    /\ page.level = 2
    /\ page.resp.kind = "page" /\ page.resp.vocab = 2
    /\ Len(progress) = 1
    /\ marked = Pairs(progress)

\* ========================================================================
\* Requests served at the same time
\* ========================================================================
\* The requests that can be in service together.
Slots == {1, 2}

\* inflight with the request r in the slot, and with the slot free again.
Enter(slot, r) ==
    [x \in (DOMAIN inflight) \cup {slot} |->
       IF x = slot THEN r ELSE inflight[x]]
Leave(slot) == [x \in (DOMAIN inflight) \ {slot} |-> inflight[x]]

\* ------------------------------------------------------------------------
\* Mark-learned requests of a logged-in user, statement by statement
\* ------------------------------------------------------------------------
\* The rows the progress table is let grow to.
MaxRows == 3

\* The user a has logged in.
InitLoggedIn ==
    /\ \E o \in login("POST", "a", "pa", "no", EmptySession) :
         session = o.session
    /\ answered = FALSE
    /\ nMatch = 0
    /\ nAdvance = 0
    /\ progress = << >>
    /\ page = NoPage
    /\ earlier = NoPage
    /\ marked = {}
    /\ inflight = Idle

\* flashcards up to the SELECT on progress: the request of a logged-in user
\* with a learned field reads whether the pair has a row.
MarkSelect(slot) ==
    /\ slot \notin DOMAIN inflight
    /\ Has(session, "user_id")
    /\ Len(progress) + Cardinality(DOMAIN inflight) < MaxRows
    /\ \E level \in Levels, learned \in MarkIds :
         inflight' = Enter(slot,
           [level |-> level, user_id |-> session["user_id"],
            vocab_id |-> learned,
            exists |-> ProgressExists(progress, session["user_id"], learned)])
    /\ UNCHANGED <<session, answered, nMatch, nAdvance, progress, page,
                   earlier, marked>>

\* flashcards from `if not exists` on: the INSERT and commit when the SELECT
\* found no row, and the redirect.
MarkInsert(slot) ==
    /\ slot \in DOMAIN inflight
    /\ LET r == inflight[slot]
       IN  /\ progress' = IF r.exists THEN progress
                          ELSE InsertProgress(progress, r.user_id, r.vocab_id)
           /\ page' = Exchange("POST", r.level, r.vocab_id, Absent, Absent,
                               RedirectNext(r.level, r.vocab_id))
           /\ earlier' = page
           /\ marked' = marked \cup {<<r.user_id, r.vocab_id>>}
    /\ inflight' = Leave(slot)
    /\ UNCHANGED <<session, answered, nMatch, nAdvance>>

NextMarkRace ==
    \E slot \in Slots : MarkSelect(slot) \/ MarkInsert(slot)

SpecMarkRace == InitLoggedIn /\ [][NextMarkRace]_vars

\* ------------------------------------------------------------------------
\* C18
\* ------------------------------------------------------------------------
\* C18: mark-learned requests for the same (user, vocabulary id) pair that
\* overlap leave exactly one row for the pair once they are served.
C18_OverlappingMarksLeaveOneRow ==
    inflight = Idle =>
      \A pair \in marked :
        Cardinality({ i \in DOMAIN progress :
                        <<progress[i].user_id, progress[i].vocab_id>> = pair })
          = 1

\* ------------------------------------------------------------------------
\* Quiz requests on one session, the session loaded and written back
\* ------------------------------------------------------------------------
\* The quiz requests served after the start.
MaxRequests == 3

\* The session a valid start stored.
InitStarted ==
    /\ \E o \in quiz_start("POST", 1, 5, EmptySession) : session = o.session
    /\ answered = FALSE
    /\ nMatch = 0
    /\ nAdvance = 0
    /\ progress = << >>
    /\ page = NoPage
    /\ earlier = NoPage
    /\ marked = {}
    /\ inflight = Idle

\* A submit or next request arrives: the session stored at that time is the
\* session the handler will find.
QuizArrive(slot) ==
    /\ slot \notin DOMAIN inflight
    /\ nMatch + nAdvance + Cardinality(DOMAIN inflight) < MaxRequests
    /\ \E op \in {"submit", "next"}, level \in Levels :
         inflight' = Enter(slot, [op |-> op, level |-> level,
                                  loaded |-> session])
    /\ UNCHANGED <<session, answered, nMatch, nAdvance, progress, page,
                   earlier, marked>>

\* The handler runs on the session the request loaded, and the session of
\* its outcome, when the handler changed it, replaces the stored one.
QuizRespond(slot) ==
    /\ slot \in DOMAIN inflight
    /\ LET r == inflight[slot]
       IN  \E o \in Effects(IF r.op = "submit"
                            THEN quiz_submit(r.level, 1, 1, r.loaded)
                            ELSE quiz_next(r.level, r.loaded)) :
             /\ session' = IF o.session = r.loaded THEN session ELSE o.session
             /\ IF r.op = "submit"
                THEN /\ IF o.kind = "redirect"
                        THEN answered' = TRUE /\ nMatch' = nMatch + 1
                        ELSE UNCHANGED <<answered, nMatch>>
                     /\ UNCHANGED nAdvance
                ELSE /\ IF o.session # r.loaded
                        THEN answered' = FALSE /\ nAdvance' = nAdvance + 1
                        ELSE UNCHANGED <<answered, nAdvance>>
                     /\ UNCHANGED nMatch
    /\ inflight' = Leave(slot)
    /\ UNCHANGED <<progress, page, earlier, marked>>

NextQuizRace ==
    \E slot \in Slots : QuizArrive(slot) \/ QuizRespond(slot)

SpecQuizRace == InitStarted /\ [][NextQuizRace]_vars

\* ------------------------------------------------------------------------
\* C16
\* ------------------------------------------------------------------------
\* C16: once overlapping requests on a session are served, the session is
\* as if they had been served one after another: the correct count is the
\* number of matching answers accepted and the cursor the number of
\* advances made (in either order of two requests, no update is lost).
C16_RacingRequestsSerialize ==
    (inflight = Idle /\ Started(session)) =>
      /\ Correct(session) = nMatch
      /\ Cursor(session) = nAdvance

\* ------------------------------------------------------------------------
\* C21
\* ------------------------------------------------------------------------
\* The request before the last showed a card, and the last request is a
\* navigation in the same level from that card's id.
FromShownCard ==
    /\ IsCardPage(earlier)
    /\ earlier.resp.vocab # None
    /\ IsCardPage(page)
    /\ page.level = earlier.level

\* C21: on every page that shows a card, the previous id reported is the
\* largest id of the level below the card's id and the next id reported the
\* smallest id of the level above it, each none when the level has no such
\* item; and a navigation next (prev) from the card's id shows the item of
\* the next (previous) id reported, no card when none was reported.
C21_ReportedNeighbours ==
    /\ (IsCardPage(page) /\ page.resp.vocab # None) =>
         LET below == Below(page.level, page.resp.vocab)
             above == Above(page.level, page.resp.vocab)
             prev_id == page.resp.prev_id
             next_id == page.resp.next_id
         IN  /\ below = {} => prev_id = None
             /\ below # {} => prev_id \in below /\ \A i \in below : i <= prev_id
             /\ above = {} => next_id = None
             /\ above # {} => next_id \in above /\ \A i \in above : next_id <= i
    /\ (FromShownCard /\ IsNextStep(page)
          /\ page.next = earlier.resp.vocab) =>
         page.resp.vocab = earlier.resp.next_id
    /\ (FromShownCard /\ IsPrevStep(page)
          /\ page.prev = earlier.resp.vocab) =>
         page.resp.vocab = earlier.resp.prev_id

\* The card 4 of level 1 was shown with the neighbours 3 and 6, and the
\* navigation prev from 4 showed the card 3, whose neighbours are 1 and 4.
C21_Witness ==
    /\ FromShownCard
    /\ earlier.level = 1
    /\ earlier.resp.vocab = 4
    /\ earlier.resp.prev_id = 3
    /\ earlier.resp.next_id = 6
    /\ IsPrevStep(page)
    /\ page.prev = 4
    /\ page.resp.vocab = 3
    /\ page.resp.prev_id = 1
    /\ page.resp.next_id = 4

====
